---- MODULE Spec2Model ----
(***************************************************************************)
(* Model of script-verificado.py: an interactive Telegram channel cloner.  *)
(* One run of main() is a sequential state machine: configuration          *)
(* (ask_env_or_input), session (async with TelegramClient), dialog         *)
(* resolution (choose_dialog), date prompt, history fetch, copy-count      *)
(* prompt and the replication loop.                                        *)
(*                                                                         *)
(* Terminal input is a sequence of one-character strings, so that strip(), *)
(* isdigit() and int() are computed rather than assumed.  Optional values  *)
(* (Python None) are sequences of length at most one.                      *)
(***************************************************************************)
EXTENDS Integers, Sequences, FiniteSets, TLC

\* ------------------------------------------------------------------ bounds
\* longest source history the provider yields
MaxHist == 2
\* nested choose_dialog calls the interpreter's recursion limit leaves room
\* for (sys.getrecursionlimit() less the frames already on the stack)
MaxNesting == 2

\* ------------------------------------------------------- optional values
None == <<>>
Some(x) == <<x>>
IsSome(o) == Len(o) = 1
Val(o) == o[1]

\* ------------------------------------------------------ terminal strings
DigitChars == <<"0", "1", "2", "3", "4", "5", "6", "7", "8", "9">>
IsDigitChar(c) == \E i \in 1..Len(DigitChars) : DigitChars[i] = c
DigitVal(c) == (CHOOSE i \in 1..Len(DigitChars) : DigitChars[i] = c) - 1

RECURSIVE LStrip(_)
LStrip(s) == IF s # <<>> /\ Head(s) = " " THEN LStrip(Tail(s)) ELSE s

RECURSIVE RStrip(_)
RStrip(s) ==
    IF s # <<>> /\ s[Len(s)] = " " THEN RStrip(SubSeq(s, 1, Len(s) - 1)) ELSE s

\* str.strip()
Strip(s) == RStrip(LStrip(s))

\* str.isdigit(): non-empty and every character a digit
IsDigit(s) == s # <<>> /\ \A i \in 1..Len(s) : IsDigitChar(s[i])

RECURSIVE DigitsToNat(_)
DigitsToNat(s) ==
    IF s = <<>> THEN 0
    ELSE 10 * DigitsToNat(SubSeq(s, 1, Len(s) - 1)) + DigitVal(s[Len(s)])

\* int(s) succeeds: surrounding blanks, an optional sign, then digits
IntParses(s) ==
    LET t == Strip(s) IN
        /\ t # <<>>
        /\ IF Head(t) \in {"-", "+"} THEN IsDigit(Tail(t)) ELSE IsDigit(t)

\* int(s), where IntParses(s)
ParseInt(s) ==
    LET t == Strip(s) IN
        IF Head(t) = "-" THEN 0 - DigitsToNat(Tail(t))
        ELSE IF Head(t) = "+" THEN DigitsToNat(Tail(t))
        ELSE DigitsToNat(t)

\* str(n) for n >= 0
RECURSIVE NatToStr(_)
NatToStr(n) ==
    IF n < 10 THEN <<DigitChars[n + 1]>>
    ELSE Append(NatToStr(n \div 10), DigitChars[(n % 10) + 1])

\* ------------------------------------------------------------ environment
\* values os.getenv("API_ID") may give: unset, empty, an integer, a word
EnvApiId == {None, Some(<<>>), Some(<<"1", "2">>), Some(<<"x">>)}
\* values os.getenv("API_HASH") may give
EnvApiHash == {None, Some(<<>>), Some(<<"h">>)}
\* lines typed at the API_ID and API_HASH prompts
TypedApiId == {<<>>, <<" ">>, <<"x">>, <<" ", "1", "2">>}
TypedApiHash == {<<>>, <<" ", "h", " ">>}

VARIABLES
    pc,             \* position of main()
    fault,          \* exception that propagated out of main(), if any
    out,            \* last line written to the terminal
    api_id,         \* main: api_id
    api_hash,       \* main: api_hash
    env_val,        \* ask_env_or_input: env_val, while a call is running
    dotenv,         \* whether the file .env exists, as the running call finds it
    session,        \* the TelegramClient session: "none", "open", "closed"
    selector,       \* choose_dialog: escolha, once the innermost call read it
    nesting,        \* choose_dialog calls nested inside the first one
    lookup,         \* get_entity calls of the running choose_dialog, in order
    origem_ent,     \* main: origem_ent
    destino_ent,    \* main: destino_ent
    start_date,     \* main: start_date (ordinal day)
    history,        \* what client.iter_messages yields, newest first
    pos,            \* messages already yielded by the iterator
    pbar,           \* the download progress bar: none, open with its total, closed
    messages,       \* main: messages
    total_mensagens,\* main: total_mensagens
    num_to_copy,    \* main: num_to_copy
    idx,            \* messages of the clone loop already taken
    inflight,       \* send calls issued and not yet returned
    calls,          \* every send call issued, in order
    dest,           \* what the destination conversation received, in order
    signals,        \* every FloodWaitError the provider raised, in order
    slept           \* every asyncio.sleep duration, in order

vars == <<pc, fault, out, api_id, api_hash, env_val, dotenv, session, selector,
          nesting, lookup, origem_ent, destino_ent, start_date, history, pos, pbar,
          messages, total_mensagens, num_to_copy, idx, inflight, calls, dest,
          signals, slept>>

cfgVars == <<api_id, api_hash>>
\* locals of ask_env_or_input and of choose_dialog: they exist during a call
callVars == <<env_val, dotenv, selector, nesting, lookup>>
entVars == <<origem_ent, destino_ent>>
fetchVars == <<history, pos, pbar, messages, total_mensagens>>
copyVars == <<idx, inflight, calls, dest, signals, slept>>

Init ==
    /\ pc = "env_api_id"
    /\ fault = None
    /\ out = <<"start">>
    /\ api_id = None
    /\ api_hash = None
    /\ env_val = None
    /\ dotenv = None
    /\ session = "none"
    /\ selector = None
    /\ nesting = 0
    /\ lookup = <<>>
    /\ origem_ent = None
    /\ destino_ent = None
    /\ start_date = None
    /\ history = <<>>
    /\ pos = 0
    /\ pbar = <<"none">>
    /\ messages = <<>>
    /\ total_mensagens = 0
    /\ num_to_copy = 0
    /\ idx = 0
    /\ inflight = {}
    /\ calls = <<>>
    /\ dest = <<>>
    /\ signals = <<>>
    /\ slept = <<>>

\* an exception leaves main() before the session exists
Crash(exc) ==
    /\ pc' = "aborted"
    /\ fault' = Some(exc)

\* ------------------------------------------------- ask_env_or_input
\* the value ask_env_or_input returns is stored by its caller
StoreSetting(var_name, v) ==
    /\ api_id' = IF var_name = "API_ID" THEN Some(v) ELSE api_id
    /\ api_hash' = IF var_name = "API_HASH" THEN Some(v) ELSE api_hash

\* a faulty UsesEnv: the environment value is used whether .env exists or not
UsesEnvNoFile(exists, v) == IsSome(v) /\ Val(v) # <<>>

\* line 53: the environment value is used when .env exists and it is set
UsesEnv(exists, v) == exists /\ IsSome(v) /\ Val(v) # <<>>

\* line 50: env_val = os.getenv(var_name)
GetEnv(at, test, EnvVals) ==
    /\ pc = at
    /\ \E v \in EnvVals : env_val' = Some(v)
    /\ \E exists \in BOOLEAN : dotenv' = Some(exists)
    /\ pc' = test
    /\ UNCHANGED <<fault, out, cfgVars, session, selector, nesting, lookup, entVars,
                   start_date, fetchVars, num_to_copy, copyVars>>

\* ask_env_or_input returned or raised: its frame is gone
LeaveAsk ==
    /\ env_val' = None
    /\ dotenv' = None

\* lines 53-55: the test of the environment value, and what follows from it
AskEnv(test, ask, nxt, var_name, is_int) ==
    /\ pc = test
    /\ IF UsesEnv(Val(dotenv), Val(env_val))
       THEN IF is_int /\ ~IntParses(Val(Val(env_val)))
            THEN /\ Crash("ValueError")
                 /\ LeaveAsk
                 /\ UNCHANGED <<out, cfgVars>>
            ELSE /\ StoreSetting(var_name,
                       IF is_int THEN ParseInt(Val(Val(env_val)))
                       ELSE Val(Val(env_val)))
                 /\ pc' = nxt
                 /\ LeaveAsk
                 /\ UNCHANGED <<fault, out>>
       ELSE /\ pc' = ask
            /\ UNCHANGED <<fault, out, cfgVars, env_val, dotenv>>
    /\ UNCHANGED <<session, selector, nesting, lookup, entVars, start_date,
                   fetchVars, num_to_copy, copyVars>>

\* lines 56-67: one pass of the prompt loop
AskInput(ask, nxt, var_name, is_int, Typed) ==
    /\ pc = ask
    /\ \/ \E line \in Typed :
            LET v == Strip(line) IN
            IF v = <<>>
            THEN /\ out' = <<"Valor obrigatorio">>
                 /\ UNCHANGED <<pc, fault, cfgVars, env_val, dotenv>>
            ELSE IF is_int /\ ~IntParses(v)
            THEN /\ out' = <<"Informe um numero inteiro valido">>
                 /\ UNCHANGED <<pc, fault, cfgVars, env_val, dotenv>>
            ELSE /\ StoreSetting(var_name, IF is_int THEN ParseInt(v) ELSE v)
                 /\ pc' = nxt
                 /\ LeaveAsk
                 /\ UNCHANGED <<fault, out>>
       \/ \E exc \in {"KeyboardInterrupt", "EOFError"} :
            /\ Crash(exc)
            /\ LeaveAsk
            /\ UNCHANGED <<out, cfgVars>>
    /\ UNCHANGED <<session, selector, nesting, lookup, entVars, start_date,
                   fetchVars, num_to_copy, copyVars>>

EnvApiIdStep == GetEnv("env_api_id", "test_api_id", EnvApiId)
TestApiIdStep ==
    AskEnv("test_api_id", "ask_api_id", "env_api_hash", "API_ID", TRUE)
AskApiIdStep ==
    AskInput("ask_api_id", "env_api_hash", "API_ID", TRUE, TypedApiId)
EnvApiHashStep == GetEnv("env_api_hash", "test_api_hash", EnvApiHash)
TestApiHashStep ==
    AskEnv("test_api_hash", "ask_api_hash", "connect", "API_HASH", FALSE)
AskApiHashStep ==
    AskInput("ask_api_hash", "connect", "API_HASH", FALSE, TypedApiHash)

\* ------------------------------------------------- the session scope
\* a faulty AExit: the session is left as it is
AExitLeak(s) == s

\* TelegramClient.__aexit__: leaving the async with block disconnects
AExit(s) == "closed"

\* line 122: __aenter__ starts the client or raises
Connect ==
    /\ pc = "connect"
    /\ \/ /\ session' = "open"
          /\ out' = <<"Conectado ao Telegram!">>
          /\ pc' = "origem"
          /\ UNCHANGED fault
       \/ /\ Crash("ConnectError")
          /\ UNCHANGED <<session, out>>
    /\ UNCHANGED <<cfgVars, callVars, entVars, start_date, fetchVars, num_to_copy,
                   copyVars>>

\* return from inside the async with block: the session is released
Return(line) ==
    /\ pc' = "aborted"
    /\ out' = line
    /\ session' = AExit(session)
    /\ UNCHANGED fault

\* an exception propagates out of the async with block
Raise(exc) ==
    /\ pc' = "aborted"
    /\ fault' = Some(exc)
    /\ session' = AExit(session)
    /\ UNCHANGED out

\* ------------------------------------------------- choose_dialog
\* line 83: get_dialogs(limit=200)
DialogLimit == 200

\* the conversations of the account by identifier, most recent first: one
\* more than get_dialogs lists
AccountDialogs ==
    [i \in 1..(DialogLimit + 1) |-> IF i = DialogLimit THEN 0 - 7 ELSE 100 + i]

\* client.get_dialogs(limit): the first `limit` conversations
GetDialogs(limit) ==
    SubSeq(AccountDialogs, 1,
           IF limit < Len(AccountDialogs) THEN limit ELSE Len(AccountDialogs))

\* line 83: the cached list
Dialogs == GetDialogs(DialogLimit)

\* identifiers the session can resolve: those of the account's conversations
KnownIds == {AccountDialogs[i] : i \in 1..Len(AccountDialogs)}

\* usernames and phone numbers the platform resolves, with the entity each
\* names
Usernames ==
    {[name |-> <<"@", "c">>, ent |-> 0 - 7],
     [name |-> <<"+", "5", "5">>, ent |-> 0 - 7]}

\* lines typed at a dialog prompt
Selectors == {<<>>, <<" ">>, <<"1">>, <<"0">>, <<"2", "0", "0">>, <<"2", "0", "1">>,
              <<"-", "7">>, <<"+", "5", "5">>, <<"@", "c">>, <<"@", "z">>}

\* client.get_entity(key) for an integer key: the entity, or an error
GetEntityById(n) ==
    (IF n \in KnownIds THEN {[ok |-> TRUE, ent |-> n, exc |-> "none"]} ELSE {})
    \cup {[ok |-> FALSE, ent |-> 0, exc |-> "ValueError"],
          [ok |-> FALSE, ent |-> 0, exc |-> "RPCError"]}

\* client.get_entity(key) for a string key
GetEntityByName(name) ==
    {[ok |-> TRUE, ent |-> u.ent, exc |-> "none"] : u \in {w \in Usernames : w.name = name}}
    \cup {[ok |-> FALSE, ent |-> 0, exc |-> "ValueError"]}

\* positions of main() inside a choose_dialog call
Chosen(role) == IF role = "origem" THEN "origem_chosen" ELSE "destino_chosen"
Lookup(role) == IF role = "origem" THEN "origem_lookup" ELSE "destino_lookup"

\* choose_dialog returned or raised: its frames are gone
LeaveDialog ==
    /\ selector' = None
    /\ nesting' = 0
    /\ lookup' = <<>>

\* the caller of choose_dialog stores the entity and moves on (lines 127-140)
StoreEntity(role, e) ==
    IF role = "origem"
    THEN /\ origem_ent' = Some(e)
         /\ pc' = "destino"
         /\ UNCHANGED <<destino_ent, out, fault, session>>
    ELSE /\ destino_ent' = Some(e)
         /\ pc' = "date"
         /\ out' = <<"Destino selecionado", e>>
         /\ UNCHANGED <<origem_ent, fault, session>>

ErroSelecionar == <<"Erro ao listar/selecionar dialogos">>

NaoSelecionado(role) ==
    IF role = "origem" THEN <<"Origem nao selecionada. Saindo.">>
    ELSE <<"Destino nao selecionado. Saindo.">>

\* a faulty ResolveFailed: the error is printed and the selection asked again
ResolveFailedRetry(role) ==
    /\ out' = ErroSelecionar
    /\ pc' = role
    /\ LeaveDialog
    /\ UNCHANGED <<fault, session, entVars>>

\* lines 135-137: an Exception out of choose_dialog is printed and main returns
ResolveFailed(role) ==
    /\ Return(ErroSelecionar)
    /\ LeaveDialog
    /\ UNCHANGED entVars

\* lines 83-90: a call of choose_dialog lists the conversations and reads
\* the selector
ChooseDialog(role) ==
    /\ pc = role
    /\ \/ \* get_dialogs or input() raises an Exception
          ResolveFailed(role)
       \/ \* Ctrl-C at input() is no Exception: it propagates
          /\ Raise("KeyboardInterrupt")
          /\ LeaveDialog
          /\ UNCHANGED entVars
       \/ \E line \in Selectors :
            /\ selector' = Some(Strip(line))
            /\ pc' = Chosen(role)
            /\ UNCHANGED <<fault, out, session, nesting, lookup, entVars>>
    /\ UNCHANGED <<cfgVars, env_val, dotenv, start_date, fetchVars, num_to_copy,
                   copyVars>>

\* a faulty CachedIndex: the entry is used as a 0-based position
CachedIndexZeroBased(e) == ParseInt(e)

\* line 94: idx = int(escolha) - 1
CachedIndex(e) == ParseInt(e) - 1

\* lines 98-99: the entry is no index of the list; choose_dialog calls itself,
\* which the interpreter refuses with RecursionError once the stack is full
Recurse(role) ==
    IF nesting < MaxNesting
    THEN /\ out' = <<"Indice fora do intervalo.">>
         /\ nesting' = nesting + 1
         /\ selector' = None
         /\ pc' = role
         /\ UNCHANGED <<fault, session, lookup, entVars>>
    ELSE ResolveFailed(role)

\* lines 100-104: the first get_entity key for a selector: the integer it
\* reads as, or else the text itself
FirstKey(e) ==
    IF IntParses(e) THEN [kind |-> "id", key |-> e] ELSE [kind |-> "name", key |-> e]

\* lines 91-104: what choose_dialog does with the selector it read, up to
\* its return or its first get_entity call
Decide(role) ==
    /\ pc = Chosen(role)
    /\ LET e == Val(selector) IN
       IF e = <<>>
       THEN /\ Return(NaoSelecionado(role))
            /\ LeaveDialog
            /\ UNCHANGED entVars
       ELSE IF IsDigit(e)
       THEN IF 0 <= CachedIndex(e) /\ CachedIndex(e) < Len(Dialogs)
            THEN /\ StoreEntity(role, Dialogs[CachedIndex(e) + 1])
                 /\ LeaveDialog
            ELSE Recurse(role)
       ELSE /\ lookup' = <<FirstKey(e)>>
            /\ pc' = Lookup(role)
            /\ UNCHANGED <<fault, out, session, selector, nesting, entVars>>
    /\ UNCHANGED <<cfgVars, env_val, dotenv, start_date, fetchVars, num_to_copy,
                   copyVars>>

\* client.get_entity for the key of a pending call
GetEntity(q) ==
    IF q.kind = "id" THEN GetEntityById(ParseInt(q.key)) ELSE GetEntityByName(q.key)

\* lines 102-104: the pending get_entity call returns or raises; int(escolha)
\* and get_entity(maybe_id) share one try block, so a ValueError of the call
\* by identifier leads to get_entity(escolha)
GetEntityReturn(role) ==
    /\ pc = Lookup(role)
    /\ LET q == lookup[Len(lookup)] IN
       \E r \in GetEntity(q) :
            IF r.ok
            THEN /\ StoreEntity(role, r.ent)
                 /\ LeaveDialog
            ELSE IF q.kind = "id" /\ r.exc = "ValueError"
            THEN /\ lookup' = Append(lookup, [kind |-> "name", key |-> q.key])
                 /\ UNCHANGED <<pc, fault, out, session, selector, nesting, entVars>>
            ELSE ResolveFailed(role)
    /\ UNCHANGED <<cfgVars, env_val, dotenv, start_date, fetchVars, num_to_copy,
                   copyVars>>

ChooseOrigem == ChooseDialog("origem")
DecideOrigem == Decide("origem")
GetOrigemReturn == GetEntityReturn("origem")
ChooseDestino == ChooseDialog("destino")
DecideDestino == Decide("destino")
GetDestinoReturn == GetEntityReturn("destino")

\* ------------------------------------------------- the date prompt
RECURSIVE SplitDash(_)
\* s.split("-")
SplitDash(s) ==
    IF \A i \in 1..Len(s) : s[i] # "-" THEN <<s>>
    ELSE LET k == CHOOSE i \in 1..Len(s) :
                    s[i] = "-" /\ \A j \in 1..(i - 1) : s[j] # "-"
         IN <<SubSeq(s, 1, k - 1)>> \o SplitDash(SubSeq(s, k + 1, Len(s)))

IsLeap(y) == (y % 4 = 0) /\ ((y % 100 # 0) \/ (y % 400 = 0))

DaysInMonth(y, m) ==
    IF m = 2 THEN (IF IsLeap(y) THEN 29 ELSE 28)
    ELSE IF m \in {4, 6, 9, 11} THEN 30 ELSE 31

RECURSIVE DaysBeforeMonth(_, _)
DaysBeforeMonth(y, m) ==
    IF m = 1 THEN 0 ELSE DaysBeforeMonth(y, m - 1) + DaysInMonth(y, m - 1)

\* datetime.date(y, m, d).toordinal()
ToOrdinal(y, m, d) ==
    LET p == y - 1 IN
        p * 365 + (p \div 4) - (p \div 100) + (p \div 400) + DaysBeforeMonth(y, m) + d

\* strptime(entrada, "%Y-%m-%d") succeeds
DateParses(s) ==
    LET f == SplitDash(s) IN
        /\ Len(f) = 3
        /\ Len(f[1]) = 4 /\ IsDigit(f[1]) /\ DigitsToNat(f[1]) >= 1
        /\ Len(f[2]) \in {1, 2} /\ IsDigit(f[2]) /\ DigitsToNat(f[2]) \in 1..12
        /\ Len(f[3]) \in {1, 2} /\ IsDigit(f[3])
        /\ DigitsToNat(f[3]) \in 1..DaysInMonth(DigitsToNat(f[1]), DigitsToNat(f[2]))

\* strptime(entrada, "%Y-%m-%d").date(), as an ordinal day
ParseDate(s) ==
    LET f == SplitDash(s) IN
        ToOrdinal(DigitsToNat(f[1]), DigitsToNat(f[2]), DigitsToNat(f[3]))

\* lines typed at the date prompt
DateEntries ==
    {<<>>,
     <<" ", "2", "0", "2", "4", "-", "0", "1", "-", "0", "2">>,
     <<"2", "0", "2", "4", "-", "1", "-", "1">>,
     <<"0", "2", "/", "0", "1", "/", "2", "0", "2", "4">>,
     <<"2", "0", "2", "4", "-", "0", "2", "-", "3", "0">>}

\* lines 143-152: one pass of the date prompt loop
AskDate ==
    /\ pc = "date"
    /\ \/ \E line \in DateEntries :
            LET entrada == Strip(line) IN
            IF entrada = <<>>
            THEN /\ pc' = "get_total"
                 /\ UNCHANGED <<start_date, out, fault, session>>
            ELSE IF DateParses(entrada)
            THEN /\ start_date' = Some(ParseDate(entrada))
                 /\ pc' = "get_total"
                 /\ UNCHANGED <<out, fault, session>>
            ELSE /\ out' = <<"Formato invalido. Use AAAA-MM-DD.">>
                 /\ UNCHANGED <<pc, start_date, fault, session>>
       \/ \E exc \in {"KeyboardInterrupt", "EOFError"} :
            /\ Raise(exc)
            /\ UNCHANGED start_date
    /\ UNCHANGED <<cfgVars, callVars, entVars, fetchVars, num_to_copy, copyVars>>

\* ------------------------------------------------- the source history
\* the calendar day message dates are counted from
EpochDay == ToOrdinal(2024, 1, 1)

\* message.date: absent, or a moment of EpochDay or of the day after it (the
\* two days the date prompt's entries name)
Stamps == {None, Some(0), Some(1)}
\* message.media: absent, or a payload
Medias == {None, Some("photo")}
\* message.text: absent, or a body
Texts == {None, Some("hi")}

\* the messages a history may hold, apart from their identifiers: a dated
\* message with any media and text, or an empty one, which has no date and
\* carries nothing
Contents ==
    {c \in [date : Stamps, media : Medias, text : Texts] :
        ~IsSome(c.date) => (~IsSome(c.media) /\ ~IsSome(c.text))}

\* a history as iter_messages yields it: newest first, identifiers descending
WithIds(cs) ==
    [k \in 1..Len(cs) |->
        [id |-> Len(cs) - k + 1, date |-> cs[k].date,
         media |-> cs[k].media, text |-> cs[k].text]]

Histories ==
    UNION {{WithIds(cs) : cs \in [1..n -> Contents]} : n \in 0..MaxHist}

\* message.date.date(), as an ordinal day
DateOf(m) == EpochDay + Val(m.date)

RECURSIVE Reverse(_)
\* list.reverse()
Reverse(s) == IF s = <<>> THEN <<>> ELSE Append(Reverse(Tail(s)), Head(s))

\* line 192: messages.reverse()
Reversed(buffer) == Reverse(buffer)

\* ------------------------------------------------- fetching (lines 154-197)
\* line 167: the bar gets a total only when total_to_fetch is truthy
OpenBar(total_to_fetch) ==
    IF IsSome(total_to_fetch) /\ Val(total_to_fetch) # 0
    THEN <<"open", total_to_fetch>>
    ELSE <<"open", None>>

\* lines 157-167: the total is asked for, then the progress bar is opened;
\* the history is what the source conversation holds at that moment
GetTotal ==
    /\ pc = "get_total"
    /\ \E h \in Histories :
        /\ history' = h
        /\ \/ pbar' = OpenBar(Some(Len(h)))   \* GetHistoryRequest answered
           \/ pbar' = OpenBar(None)           \* it raised: line 163
    /\ pc' = "fetch"
    /\ UNCHANGED <<fault, out, session, cfgVars, callVars, entVars, start_date,
                   pos, messages, total_mensagens, num_to_copy, copyVars>>

\* a faulty Breaks: the loop never stops at the start date
BreaksNever(m) == FALSE

\* a faulty Breaks: `<=` where the code has `<`
BreaksAtStart(m) == IsSome(start_date) /\ IsSome(m.date) /\ DateOf(m) <= Val(start_date)

\* lines 171-183: what the loop body does with one yielded message
Skips(m) == IsSome(start_date) /\ ~IsSome(m.date)
Breaks(m) == IsSome(start_date) /\ IsSome(m.date) /\ DateOf(m) < Val(start_date)

\* a faulty FetchDone: the clone loop starts without the copy-count prompt
FetchDoneUnasked(buffer) ==
    /\ pbar' = <<"closed">>
    /\ messages' = Reversed(buffer)
    /\ total_mensagens' = Len(buffer)
    /\ num_to_copy' = Len(buffer)
    /\ out' = <<"Total de mensagens", Len(buffer)>>
    /\ pc' = "loop"
    /\ UNCHANGED <<fault, session>>

\* lines 188-200: the loop is left; the buffer is reversed and counted
FetchDone(buffer) ==
    /\ pbar' = <<"closed">>
    /\ messages' = Reversed(buffer)
    /\ total_mensagens' = Len(buffer)
    /\ num_to_copy' = Len(buffer)
    /\ out' = <<"Total de mensagens", Len(buffer)>>
    /\ pc' = "count"
    /\ UNCHANGED <<fault, session>>

\* a faulty ExceptClose: the except clause leaves the bar to the finally clause
ExceptCloseMissing(bar) == bar

\* line 185: pbar.close() in the except clause
ExceptClose(bar) == <<"closed">>

ErroObter == <<"Erro ao obter mensagens">>

\* lines 186-189: the error is printed and main returns; the finally clause
\* closes the bar once more
ReportFetchError ==
    /\ Return(ErroObter)
    /\ pbar' = <<"closed">>
    /\ UNCHANGED <<pos, messages, total_mensagens, num_to_copy>>

\* one step of `async for message in client.iter_messages(...)`
FetchStep ==
    /\ pc = "fetch"
    /\ \/ \* the provider raises: lines 184-185
          /\ pbar' = ExceptClose(pbar)
          /\ pc' = "fetch_except"
          /\ UNCHANGED <<fault, out, session, pos, messages, total_mensagens,
                         num_to_copy>>
       \/ \* the iterator is exhausted
          /\ pos = Len(history)
          /\ FetchDone(messages)
          /\ UNCHANGED pos
       \/ /\ pos < Len(history)
          /\ LET message == history[pos + 1] IN
             IF Skips(message)
             THEN /\ pos' = pos + 1
                  /\ UNCHANGED <<pc, fault, out, session, pbar, messages,
                                 total_mensagens, num_to_copy>>
             ELSE IF Breaks(message)
             THEN /\ pos' = pos + 1
                  /\ FetchDone(messages)
             ELSE /\ pos' = pos + 1
                  /\ messages' = Append(messages, message)
                  /\ UNCHANGED <<pc, fault, out, session, pbar,
                                 total_mensagens, num_to_copy>>
    /\ UNCHANGED <<history, cfgVars, callVars, entVars, start_date, copyVars>>

\* the except clause of the fetch, after it closed the bar
FetchFailed ==
    /\ pc = "fetch_except"
    /\ ReportFetchError
    /\ UNCHANGED <<history, cfgVars, callVars, entVars, start_date, copyVars>>

\* ------------------------------------------------- the copy count (199-230)
\* lines typed at the copy-count prompt
CountEntries ==
    {<<>>, <<" ">>, <<"x">>, <<"0">>, <<"-", "1">>, <<" ", "1">>}
    \cup {NatToStr(n) : n \in 1..(MaxHist + 1)}

\* a faulty CountDecision: `n < 0` where the code has `n <= 0`
CountDecisionZero(escolha, total) ==
    IF Strip(escolha) = <<>>
    THEN [accept |-> TRUE, n |-> total, line |-> <<"todas">>]
    ELSE IF ~IntParses(escolha)
    THEN [accept |-> FALSE, n |-> 0, line |-> <<"Entrada invalida.">>]
    ELSE IF ParseInt(escolha) < 0
    THEN [accept |-> FALSE, n |-> 0, line |-> <<"Informe um numero maior que zero">>]
    ELSE IF ParseInt(escolha) > total
    THEN [accept |-> FALSE, n |-> 0, line |-> <<"O canal tem apenas", total>>]
    ELSE [accept |-> TRUE, n |-> ParseInt(escolha), line |-> <<"n">>]

\* a faulty CountDecision: the test of lines 215-217 is missing
CountDecisionUncapped(escolha, total) ==
    IF Strip(escolha) = <<>>
    THEN [accept |-> TRUE, n |-> total, line |-> <<"todas">>]
    ELSE IF ~IntParses(escolha)
    THEN [accept |-> FALSE, n |-> 0, line |-> <<"Entrada invalida.">>]
    ELSE IF ParseInt(escolha) <= 0
    THEN [accept |-> FALSE, n |-> 0, line |-> <<"Informe um numero maior que zero">>]
    ELSE [accept |-> TRUE, n |-> ParseInt(escolha), line |-> <<"n">>]

\* lines 203-219: what one entry at the copy-count prompt leads to: the
\* count it sets, or the line that rejects it
CountDecision(escolha, total) ==
    IF Strip(escolha) = <<>>
    THEN [accept |-> TRUE, n |-> total, line |-> <<"todas">>]
    ELSE IF ~IntParses(escolha)
    THEN [accept |-> FALSE, n |-> 0, line |-> <<"Entrada invalida.">>]
    ELSE IF ParseInt(escolha) <= 0
    THEN [accept |-> FALSE, n |-> 0, line |-> <<"Informe um numero maior que zero">>]
    ELSE IF ParseInt(escolha) > total
    THEN [accept |-> FALSE, n |-> 0, line |-> <<"O canal tem apenas", total>>]
    ELSE [accept |-> TRUE, n |-> ParseInt(escolha), line |-> <<"n">>]

\* a faulty Select: messages[-num_to_copy:], the newest instead of the oldest
SelectNewest(buffer, n) ==
    IF n < Len(buffer) THEN SubSeq(buffer, Len(buffer) - n + 1, Len(buffer))
    ELSE buffer

\* lines 224-228: messages[:num_to_copy] when fewer than all are wanted
Select(buffer, n) == IF n < Len(buffer) THEN SubSeq(buffer, 1, n) ELSE buffer

\* lines 224-230: the selection is cut and the clone loop begins
StartClone(n) ==
    /\ num_to_copy' = n
    /\ messages' = Select(messages, n)
    /\ out' = <<"Iniciando clonagem", Len(Select(messages, n))>>
    /\ pc' = "loop"
    /\ UNCHANGED <<fault, session>>

Cancelada == <<"Operacao cancelada pelo usuario.">>

\* a faulty CountInterrupted: the interrupt is not caught
CountInterruptedUncaught == Raise("KeyboardInterrupt")

\* lines 220-222: KeyboardInterrupt at the prompt is caught; main returns
CountInterrupted == Return(Cancelada)

\* one pass of the copy-count prompt loop
AskCount ==
    /\ pc = "count"
    /\ \/ \E escolha \in CountEntries :
            LET d == CountDecision(escolha, total_mensagens) IN
            IF d.accept
            THEN StartClone(d.n)
            ELSE /\ out' = d.line
                 /\ UNCHANGED <<pc, fault, session, messages, num_to_copy>>
       \/ \* Ctrl-C at input()
          /\ CountInterrupted
          /\ UNCHANGED <<messages, num_to_copy>>
       \/ \* EOFError is not caught
          /\ Raise("EOFError")
          /\ UNCHANGED <<messages, num_to_copy>>
    /\ UNCHANGED <<cfgVars, callVars, entVars, start_date, history, pos, pbar,
                   total_mensagens, copyVars>>

\* ------------------------------------------------- the clone loop (232-248)
\* seconds a FloodWaitError carries
FloodSeconds == {30}

\* a faulty CallFor: the text branch is tested before the media branch
CallForTextFirst(m) ==
    IF IsSome(m.text)
    THEN Some([api |-> "send_message", to |-> Val(destino_ent), media |-> None,
               text |-> m.text, id |-> m.id])
    ELSE IF IsSome(m.media)
    THEN Some([api |-> "send_file", to |-> Val(destino_ent), media |-> m.media,
               text |-> m.text, id |-> m.id])
    ELSE None

\* lines 235-240: the call chosen for a message, if any
CallFor(m) ==
    IF IsSome(m.media)
    THEN Some([api |-> "send_file", to |-> Val(destino_ent), media |-> m.media,
               text |-> m.text, id |-> m.id])
    ELSE IF IsSome(m.text)
    THEN Some([api |-> "send_message", to |-> Val(destino_ent), media |-> None,
               text |-> m.text, id |-> m.id])
    ELSE None

\* a faulty AfterIssue: the call is not awaited and the loop goes on
AfterIssueNoAwait == "loop"

\* where main() is while a send call it issued is pending: it awaits it
AfterIssue == "sending"

\* the loop takes the next message, or ends (line 248 and the end of the
\* async with block)
LoopStep ==
    /\ pc = "loop"
    /\ IF idx = Len(messages)
       THEN /\ pc' = "done"
            /\ out' = <<"Clonagem concluida com sucesso!">>
            /\ session' = AExit(session)
            /\ UNCHANGED <<idx, inflight, calls>>
       ELSE LET call == CallFor(messages[idx + 1]) IN
            /\ idx' = idx + 1
            /\ IF IsSome(call)
               THEN /\ inflight' = inflight \cup {Val(call)}
                    /\ calls' = Append(calls, Val(call))
                    /\ pc' = AfterIssue
               ELSE /\ UNCHANGED <<inflight, calls, pc>>
            /\ UNCHANGED <<out, session>>
    /\ UNCHANGED <<fault, cfgVars, callVars, entVars, start_date, fetchVars,
                   num_to_copy, dest, signals, slept>>

\* a faulty OnFlood: the signal ends the run instead of being waited out
OnFloodAbort(seconds) ==
    /\ out' = <<"Aguardando", seconds>>
    /\ slept' = slept
    /\ pc' = "aborted"
    /\ UNCHANGED <<idx, dest>>

\* a variant of OnFlood that takes the same message again after the sleep
OnFloodRetry(seconds) ==
    /\ out' = <<"Aguardando", seconds>>
    /\ slept' = Append(slept, seconds)
    /\ pc' = "sleeping"
    /\ idx' = idx - 1
    /\ UNCHANGED dest

\* what main() does when the pending call raised FloodWaitError (241-244)
OnFlood(seconds) ==
    /\ out' = <<"Aguardando", seconds>>
    /\ slept' = Append(slept, seconds)
    /\ pc' = "sleeping"
    /\ UNCHANGED <<idx, dest>>

\* a faulty OnError: the error ends the run
OnErrorAbort(call) ==
    /\ out' = <<"Erro ao copiar mensagem", call.id>>
    /\ pc' = "aborted"
    /\ UNCHANGED <<idx, dest, slept>>

\* a faulty OnError: the message is taken again after the error
OnErrorRetry(call) ==
    /\ out' = <<"Erro ao copiar mensagem", call.id>>
    /\ pc' = "loop"
    /\ idx' = idx - 1
    /\ UNCHANGED <<dest, slept>>

\* what main() does when the pending call raised another Exception (245-246)
OnError(call) ==
    /\ out' = <<"Erro ao copiar mensagem", call.id>>
    /\ pc' = "loop"
    /\ UNCHANGED <<idx, dest, slept>>

\* the pending send call returns or raises
SendReturn ==
    /\ pc = "sending"
    /\ \E call \in inflight :
        /\ inflight' = inflight \ {call}
        /\ \/ /\ dest' = Append(dest, call)
              /\ pc' = "loop"
              /\ UNCHANGED <<out, idx, signals, slept>>
           \/ \E seconds \in FloodSeconds :
                /\ signals' = Append(signals, [id |-> call.id, seconds |-> seconds])
                /\ OnFlood(seconds)
           \/ /\ OnError(call)
              /\ UNCHANGED signals
    /\ UNCHANGED <<fault, session, cfgVars, callVars, entVars, start_date,
                   fetchVars, num_to_copy, calls>>

\* asyncio.sleep(e.seconds) is over
Wake ==
    /\ pc = "sleeping"
    /\ pc' = "loop"
    /\ UNCHANGED <<fault, out, session, cfgVars, callVars, entVars, start_date,
                   fetchVars, num_to_copy, copyVars>>

Next ==
    \/ EnvApiIdStep
    \/ TestApiIdStep
    \/ AskApiIdStep
    \/ EnvApiHashStep
    \/ TestApiHashStep
    \/ AskApiHashStep
    \/ Connect
    \/ ChooseOrigem
    \/ DecideOrigem
    \/ GetOrigemReturn
    \/ ChooseDestino
    \/ DecideDestino
    \/ GetDestinoReturn
    \/ AskDate
    \/ GetTotal
    \/ FetchStep
    \/ FetchFailed
    \/ AskCount
    \/ LoopStep
    \/ SendReturn
    \/ Wake

Spec == Init /\ [][Next]_vars

\* the event loop runs main() on: a pending call returns, a sleep ends, the
\* loop goes on
FairSpec ==
    Spec /\ WF_vars(LoopStep) /\ WF_vars(SendReturn) /\ WF_vars(Wake)

\* a step that takes main() to another position
Advances(A) == A /\ pc' # pc

\* the steps that read a line from the operator
Prompts ==
    \/ AskApiIdStep
    \/ AskApiHashStep
    \/ ChooseOrigem
    \/ ChooseDestino
    \/ AskDate
    \/ AskCount

\* the steps before the clone loop that wait for no operator
Calls ==
    \/ EnvApiIdStep
    \/ TestApiIdStep
    \/ EnvApiHashStep
    \/ TestApiHashStep
    \/ Connect
    \/ DecideOrigem
    \/ GetOrigemReturn
    \/ DecideDestino
    \/ GetDestinoReturn
    \/ GetTotal
    \/ FetchStep
    \/ FetchFailed

\* the whole run goes on: every awaited call returns or raises, and at every
\* prompt the operator eventually types a line that is accepted (or ends the
\* run)
TermSpec ==
    FairSpec /\ WF_vars(Calls) /\ WF_vars(Advances(Prompts))

\* ------------------------------------------------------------ properties
Replicating == {"loop", "sending", "sleeping"}
Terminal == {"done", "aborted"}
Selected == Replicating \cup {"done"}

Ids(seq) == {seq[i].id : i \in 1..Len(seq)}
Elems(seq) == {seq[i] : i \in 1..Len(seq)}

\* dated messages come newest first
ProviderDescending(h) ==
    \A i, j \in 1..Len(h) :
        (i < j /\ IsSome(h[i].date) /\ IsSome(h[j].date)) => DateOf(h[i]) >= DateOf(h[j])

\* the first position of the history whose message is older than the start date
BreakAt ==
    IF \E k \in 1..Len(history) : Breaks(history[k])
    THEN CHOOSE k \in 1..Len(history) :
            Breaks(history[k]) /\ \A j \in 1..(k - 1) : ~Breaks(history[j])
    ELSE Len(history) + 1

\* the messages that pass the date filter
Eligible == {history[k] : k \in {j \in 1..(BreakAt - 1) : ~Skips(history[j])}}

Transmits(m) == IsSome(m.media) \/ IsSome(m.text)

\* C1: the clone loop works on exactly the num_to_copy oldest messages that
\* passed the date filter, oldest first: every one of them is processed by
\* the time the run is done, and no send call is ever issued for a message
\* outside them or to a conversation other than the destination.
C1_OldestPrefix ==
    pc \in Selected =>
        LET S == Elems(messages) IN
        /\ num_to_copy \in 0..Cardinality(Eligible)
        /\ (num_to_copy = 0 => Eligible = {})
        /\ Len(messages) = num_to_copy
        /\ Cardinality(S) = num_to_copy
        /\ S \subseteq Eligible
        /\ \A m \in S, e \in Eligible \ S : m.id < e.id
        /\ \A i, j \in 1..Len(messages) : i < j => messages[i].id < messages[j].id
        /\ ProviderDescending(history) =>
              \A m \in S, e \in Eligible \ S :
                  (IsSome(m.date) /\ IsSome(e.date)) => DateOf(m) <= DateOf(e)
        /\ idx \in 0..num_to_copy
        /\ Ids(calls) = {messages[i].id : i \in {j \in 1..idx : Transmits(messages[j])}}
        /\ \A k \in 1..Len(calls) : calls[k].to = Val(destino_ent)
        /\ (pc = "done" => idx = num_to_copy)

C1_Witness ==
    /\ pc = "done"
    /\ num_to_copy >= 1
    /\ num_to_copy < total_mensagens
    /\ Len(calls) = num_to_copy
    /\ origem_ent # destino_ent

\* every selected message was taken by the loop, and each with media or text
\* was sent for
AllProcessed ==
    /\ pc = "done"
    /\ idx = Len(messages)
    /\ \A i \in 1..Len(messages) : Transmits(messages[i]) => messages[i].id \in Ids(calls)

\* C2: when a send raises the rate-limit signal the run is not aborted: it
\* logs the wait and sleeps the signalled number of seconds, stays on the
\* same loop position, and then goes on to process every later selected
\* message and ends DONE.
C2_FloodContinues ==
    /\ [][(pc = "sending" /\ Len(signals') = Len(signals) + 1) =>
            LET e == signals'[Len(signals')] IN
            /\ pc' = "sleeping"
            /\ slept' = Append(slept, e.seconds)
            /\ out' = <<"Aguardando", e.seconds>>
            /\ idx' = idx
            /\ fault' = fault]_vars
    /\ [][pc = "sleeping" => (pc' = "loop" /\ idx' = idx /\ slept' = slept)]_vars
    /\ (pc = "sleeping") ~> AllProcessed

C2_Witness ==
    /\ pc = "done"
    /\ \E k \in 1..Len(signals), j \in 1..Len(dest) : dest[j].id > signals[k].id

\* C3: no send is retried: every selected message has at most one send call,
\* each rate-limit signal belongs to a different message, and a message
\* whose send raised the signal is never delivered.
C3_NoRetry ==
    /\ \A i, j \in 1..Len(calls) : i < j => calls[i].id # calls[j].id
    /\ \A i, j \in 1..Len(signals) : i < j => signals[i].id # signals[j].id
    /\ \A k \in 1..Len(signals) : signals[k].id \notin Ids(dest)
    /\ Len(dest) + Len(signals) <= Len(calls)

C3_Witness ==
    /\ pc = "done"
    /\ Len(signals) >= 1
    /\ Len(dest) >= 1

\* C4: a send that raises any other error is logged with the identifier of
\* its message and the loop goes on with the next message; no step of the
\* clone loop aborts the run or lets an exception out, and the run ends DONE.
C4_ErrorsRecovered ==
    /\ [][(pc \in Replicating) =>
            (pc' \in (Replicating \cup {"done"}) /\ fault' = fault)]_vars
    /\ [][(pc = "sending" /\ pc' # "sending" /\ dest' = dest /\ signals' = signals) =>
            /\ pc' = "loop"
            /\ idx' = idx
            /\ \A call \in inflight : out' = <<"Erro ao copiar mensagem", call.id>>]_vars
    /\ (pc \in Replicating) ~> AllProcessed

C4_Witness ==
    /\ pc = "done"
    /\ Len(calls) >= 2
    /\ dest = <<>>
    /\ signals = <<>>

\* C5: the session is open exactly while main() is inside the async with
\* block, and no terminal state has it open: every way out of the block,
\* by return or by exception, closes it.
C5_SessionReleased ==
    /\ pc \in Terminal => session # "open"
    /\ (pc \in Terminal /\ session = "none") => (origem_ent = None /\ pbar = <<"none">>)
    /\ pc \notin (Terminal \cup {"env_api_id", "test_api_id", "ask_api_id",
                                 "env_api_hash", "test_api_hash", "ask_api_hash",
                                 "connect"}) => session = "open"

C5_Witness ==
    /\ pc = "aborted"
    /\ session = "closed"
    /\ fault = Some("EOFError")
    /\ pbar = <<"closed">>

\* C6: with a start date, every message in the buffer the fetch returns is
\* dated on or after it (none is undated), and when the provider yields
\* dated messages newest first the buffer is in non-decreasing date order.
C6_DateFilterOrder ==
    (pc \in ({"count"} \cup Selected) /\ IsSome(start_date)) =>
        /\ \A i \in 1..Len(messages) :
              IsSome(messages[i].date) /\ DateOf(messages[i]) >= Val(start_date)
        /\ ProviderDescending(history) =>
              \A i, j \in 1..Len(messages) :
                  i < j => DateOf(messages[i]) <= DateOf(messages[j])

C6_Witness ==
    /\ pc = "count"
    /\ IsSome(start_date)
    /\ ProviderDescending(history)
    /\ Len(messages) = 2
    /\ DateOf(messages[1]) < DateOf(messages[2])

\* the run states of the specification, by position of main()
PhaseOf(p) ==
    CASE p \in {"env_api_id", "test_api_id", "ask_api_id",
                "env_api_hash", "test_api_hash", "ask_api_hash"} -> "CONFIGURING"
      [] p = "connect" -> "AUTHENTICATING"
      [] p \in {"origem", "origem_chosen", "origem_lookup",
                "destino", "destino_chosen", "destino_lookup"} -> "RESOLVING_ENDPOINTS"
      [] p \in {"date", "get_total", "fetch", "fetch_except"} -> "FETCHING"
      [] p = "count" -> "SELECTING"
      [] p \in Replicating -> "REPLICATING"
      [] p = "done" -> "DONE"
      [] p = "aborted" -> "ABORTED"

PhaseOrder ==
    <<"CONFIGURING", "AUTHENTICATING", "RESOLVING_ENDPOINTS", "FETCHING",
      "SELECTING", "REPLICATING", "DONE">>

Rank(ph) == CHOOSE i \in 1..Len(PhaseOrder) : PhaseOrder[i] = ph

\* C7: the run starts CONFIGURING; every step stays in its phase, moves to
\* the next phase of the order, or aborts; nothing changes once the run is
\* DONE or ABORTED.
C7_LinearPhases ==
    /\ PhaseOf(pc) = "CONFIGURING"
    /\ [][/\ PhaseOf(pc) \notin {"DONE", "ABORTED"}
          /\ \/ PhaseOf(pc') = PhaseOf(pc)
             \/ PhaseOf(pc') = "ABORTED"
             \/ Rank(PhaseOf(pc')) = Rank(PhaseOf(pc)) + 1]_vars

C7_Witness ==
    /\ pc = "done"
    /\ Len(dest) >= 1
    /\ IsSome(start_date)

\* the decimal numeral of an integer
IntToStr(n) == IF n < 0 THEN <<"-">> \o NatToStr(0 - n) ELSE NatToStr(n)

\* the entry reads as the integer n
Denotes(entry, n) == Strip(entry) = IntToStr(n)

\* C8: while the copy-count prompt is pending nothing has been sent; an
\* entry is accepted exactly when it is blank or reads as an integer from 1
\* to the fetched total, and every other entry only prints a line and asks
\* again; the count used afterwards is the integer entered, or the fetched
\* total for a blank entry.
C8_CountPrompt ==
    /\ [](pc = "count" =>
            /\ calls = <<>> /\ dest = <<>> /\ inflight = {} /\ idx = 0
            /\ \A e \in CountEntries :
                LET d == CountDecision(e, total_mensagens) IN
                /\ d.accept <=> (Strip(e) = <<>> \/ \E n \in 1..total_mensagens : Denotes(e, n))
                /\ (d.accept /\ Strip(e) = <<>>) => d.n = total_mensagens
                /\ \A n \in 1..total_mensagens : Denotes(e, n) => d.n = n)
    /\ [](pc \in Selected =>
            /\ num_to_copy \in 0..total_mensagens
            /\ (num_to_copy = 0 => total_mensagens = 0))
    /\ [][(pc = "count" /\ pc' = "count") =>
            /\ UNCHANGED <<messages, num_to_copy, total_mensagens, copyVars, session, fault>>
            /\ out' \in {<<"Entrada invalida.">>, <<"Informe um numero maior que zero">>,
                         <<"O canal tem apenas", total_mensagens>>}]_vars
    /\ [][(pc = "count" /\ pc' = "loop") =>
            \E e \in CountEntries :
                /\ CountDecision(e, total_mensagens).accept
                /\ num_to_copy' = CountDecision(e, total_mensagens).n]_vars

C8_Witness ==
    /\ pc = "count"
    /\ out = <<"Informe um numero maior que zero">>
    /\ total_mensagens = 2

\* C9: at most one send call is pending at any time, and only while main()
\* awaits it: none is pending while the run sleeps or takes the next
\* message; calls are issued, and messages delivered, in the order of the
\* selection (identifiers ascending), and only issued calls are delivered.
C9_Sequential ==
    /\ Cardinality(inflight) <= 1
    /\ (inflight # {}) <=> (pc = "sending")
    /\ \A call \in inflight : Len(calls) >= 1 /\ call = calls[Len(calls)]
    /\ \A i, j \in 1..Len(calls) : i < j => calls[i].id < calls[j].id
    /\ \A i, j \in 1..Len(dest) : i < j => dest[i].id < dest[j].id
    /\ Elems(dest) \subseteq (Elems(calls) \ inflight)
    /\ pc \in Selected => Ids(dest) \subseteq Ids(messages)

C9_Witness ==
    /\ pc = "sending"
    /\ Len(calls) = 2
    /\ Len(slept) = 1
    /\ dest = <<>>

\* C10: each processed message gets exactly one treatment by its content:
\* with media, one send_file call carrying its media and its text as the
\* caption; without media but with text, one send_message call carrying its
\* text; with neither, no call at all; what is delivered is what was sent.
C10_ActionByContent ==
    pc \in Selected =>
        /\ \A i \in 1..idx :
            LET m == messages[i]
                cs == {k \in 1..Len(calls) : calls[k].id = m.id}
            IN  /\ IsSome(m.media) =>
                    /\ Cardinality(cs) = 1
                    /\ \A k \in cs : /\ calls[k].api = "send_file"
                                     /\ calls[k].media = m.media
                                     /\ calls[k].text = m.text
                /\ (~IsSome(m.media) /\ IsSome(m.text)) =>
                    /\ Cardinality(cs) = 1
                    /\ \A k \in cs : /\ calls[k].api = "send_message"
                                     /\ calls[k].media = None
                                     /\ calls[k].text = m.text
                /\ (~IsSome(m.media) /\ ~IsSome(m.text)) => cs = {}
        /\ Ids(calls) \subseteq {messages[i].id : i \in 1..idx}
        /\ Elems(dest) \subseteq Elems(calls)

C10_Witness ==
    /\ pc = "done"
    /\ idx = 2
    /\ Len(dest) = 1
    /\ dest[1].api = "send_file"
    /\ IsSome(dest[1].text)
    /\ Len(calls) = 1

Roles == {"origem", "destino"}

\* the selector reads as a position of the listed conversations
ListedIndex(e) == IsDigit(e) /\ ParseInt(e) \in 1..Len(Dialogs)

\* C11: a selector that reads as a number and is no position of the listed
\* conversations is looked up remotely as a raw identifier: the step that
\* handles it issues get_entity for that number.
C11_NumericOutOfRangeIsId ==
    [][\A role \in Roles :
        (pc = Chosen(role) /\ IntParses(Val(selector)) /\ ~ListedIndex(Val(selector))) =>
            (/\ pc' = Lookup(role)
             /\ lookup' = <<[kind |-> "id", key |-> Val(selector)]>>)]_vars

\* C12: an index entry outside the bounds of the listed conversations only
\* asks again, however many such entries came before: the step that handles
\* it goes back to the prompt, does not abort the run and stores no handle.
C12_OutOfBoundsReprompts ==
    [][\A role \in Roles :
        (pc = Chosen(role) /\ IsDigit(Val(selector)) /\ ~ListedIndex(Val(selector))) =>
            (/\ pc' = role
             /\ out' = <<"Indice fora do intervalo.">>
             /\ UNCHANGED <<entVars, fault, session>>)]_vars

\* main stores, in this step, a handle for the role: that of entity e
Stores(role, e) ==
    IF role = "origem" THEN origem_ent = None /\ origem_ent' = Some(e)
    ELSE destino_ent = None /\ destino_ent' = Some(e)

\* some handle is stored for the role in this step
StoresAny(role) ==
    IF role = "origem" THEN origem_ent' # origem_ent ELSE destino_ent' # destino_ent

\* the entities the platform has under the key of a get_entity call
Resolves(q) ==
    IF q.kind = "id" THEN {n \in KnownIds : n = ParseInt(q.key)}
    ELSE {u.ent : u \in {w \in Usernames : w.name = q.key}}

\* C13: a selector that reads as a position i of the listed conversations
\* (1 <= i <= their number, which is at most 200) gives the handle of the
\* i-th of them at once, with no get_entity call; a handle is stored in no
\* other way than this or from a get_entity call for a selector that is no
\* such position, and then it is the entity the platform has under the key
\* of that call.
C13_CachedOrRemote ==
    /\ Len(Dialogs) <= 200
    /\ [][\A role \in Roles :
            /\ (pc = Chosen(role) /\ ListedIndex(Val(selector))) =>
                    /\ Stores(role, Dialogs[ParseInt(Val(selector))])
                    /\ pc' \in {"destino", "date"}
                    /\ lookup = <<>> /\ lookup' = <<>>
            /\ StoresAny(role) =>
                    \/ pc = Chosen(role) /\ ListedIndex(Val(selector))
                    \/ /\ pc = Lookup(role)
                       /\ ~ListedIndex(Val(selector))
                       /\ \E e \in Resolves(lookup[Len(lookup)]) : Stores(role, e)
            /\ (pc = Chosen(role) /\ pc' = Lookup(role)) =>
                    /\ Val(selector) # <<>> /\ ~IsDigit(Val(selector))
                    /\ Len(lookup') = 1 /\ lookup'[1].key = Val(selector)]_vars

C13_Witness ==
    /\ pc = "destino_lookup"
    /\ origem_ent = Some(AccountDialogs[DialogLimit])
    /\ selector = Some(<<"+", "5", "5">>)
    /\ Len(lookup) = 2

\* C14: an error the provider raises while the history is iterated ends the
\* fetch and the run: the only ways out of the fetch loop are its completion
\* and the error path; on the error path the progress bar is closed first
\* and the error printed after, the run is then ABORTED with no exception
\* let out, and the messages buffered so far are dropped: they are never
\* counted, selected or sent.
C14_FetchErrorAborts ==
    /\ [][(pc = "fetch" /\ pc' \notin {"fetch", "count"}) =>
            (pc' = "fetch_except" /\ pbar' = <<"closed">> /\ out' = out)]_vars
    /\ [][(pc = "fetch_except") =>
            (/\ pbar = <<"closed">> /\ pbar' = <<"closed">>
             /\ out' = ErroObter
             /\ pc' = "aborted"
             /\ fault' = None
             /\ session' = "closed")]_vars
    /\ [](out = ErroObter =>
            (/\ pc = "aborted"
             /\ total_mensagens = 0 /\ num_to_copy = 0 /\ idx = 0
             /\ calls = <<>> /\ inflight = {} /\ dest = <<>>))

C14_Witness ==
    /\ out = ErroObter
    /\ pc = "aborted"
    /\ Len(messages) >= 1
    /\ pos < Len(history)

\* C15: a failure while a selector is resolved is printed and ends the run
\* with no retry: a get_entity call that neither yields an entity nor is the
\* call by identifier giving way to the call by the typed text aborts the
\* run; no key is looked up twice; and once the failure is printed the run
\* is over, no history was fetched and nothing was sent.
C15_ResolutionFailureAborts ==
    /\ [][\A role \in Roles :
            (pc = Lookup(role) /\ ~StoresAny(role) /\ Len(lookup') # Len(lookup) + 1) =>
                (/\ pc' = "aborted"
                 /\ out' = ErroSelecionar
                 /\ fault' = None
                 /\ session' = "closed")]_vars
    /\ [](/\ Len(lookup) <= 2
          /\ Len(lookup) = 2 =>
                (lookup[1].kind = "id" /\ lookup[2].kind = "name"))
    /\ [](out = ErroSelecionar =>
            (/\ pc = "aborted"
             /\ fault = None
             /\ destino_ent = None
             /\ history = <<>> /\ pos = 0 /\ pbar = <<"none">> /\ messages = <<>>
             /\ calls = <<>> /\ inflight = {} /\ dest = <<>>))

C15_Witness ==
    /\ pc = "aborted"
    /\ out = ErroSelecionar
    /\ IsSome(origem_ent)

\* C16: a cancellation by the operator is an orderly abort: a blank selector
\* at either dialog prompt, or Ctrl-C at the copy-count prompt, ends the run
\* ABORTED with its plain line printed, the session closed, no exception let
\* out of main and nothing sent; after a blank source selector the
\* destination is not asked for.
C16_CancellationOrderly ==
    /\ [][\A role \in Roles :
            (pc = Chosen(role) /\ Val(selector) = <<>>) =>
                (/\ pc' = "aborted"
                 /\ out' = NaoSelecionado(role)
                 /\ fault' = None
                 /\ session' = "closed"
                 /\ UNCHANGED <<entVars, copyVars>>)]_vars
    /\ [][(pc = "count") => fault' # Some("KeyboardInterrupt")]_vars
    /\ [][(pc = "count" /\ pc' = "aborted" /\ fault' # Some("EOFError")) =>
            (/\ out' = Cancelada
             /\ fault' = None
             /\ session' = "closed"
             /\ UNCHANGED copyVars)]_vars
    /\ [](out = NaoSelecionado("origem") =>
            (pc = "aborted" /\ fault = None /\ origem_ent = None /\ destino_ent = None))
    /\ [](out = NaoSelecionado("destino") =>
            (pc = "aborted" /\ fault = None /\ IsSome(origem_ent) /\ destino_ent = None))
    /\ [](out \in {NaoSelecionado("origem"), NaoSelecionado("destino"), Cancelada} =>
            (pc = "aborted" /\ calls = <<>> /\ inflight = {} /\ dest = <<>>))

C16_Witness ==
    /\ pc = "aborted"
    /\ out = Cancelada
    /\ fault = None
    /\ total_mensagens >= 1

\* the two required settings: where main() is while each is loaded, whether
\* it is an integer setting, and the value stored for it
Settings ==
    {[test |-> "test_api_id", ask |-> "ask_api_id", nxt |-> "env_api_hash",
      is_int |-> TRUE],
     [test |-> "test_api_hash", ask |-> "ask_api_hash", nxt |-> "connect",
      is_int |-> FALSE]}

\* the value main() holds for a setting after the step
StoredNext(st) == IF st.is_int THEN api_id' ELSE api_hash'

\* the environment holds a non-empty value for the setting being loaded
Present == IsSome(Val(env_val)) /\ Val(Val(env_val)) # <<>>

\* the returned value is not empty, and is an integer for an integer setting
Returned(st, v) == IF st.is_int THEN v \in Int ELSE (v # <<>> /\ v = Strip(v))

\* C17 as stated: a setting present in the environment is used without
\* prompting; only an absent one is prompted for, until a non-empty (and for
\* an integer setting, integer) value is typed; the value returned is never
\* empty and is an integer where one is required.
C17_EnvUsedWhenPresent ==
    [][\A st \in Settings :
        /\ (pc = st.test /\ Present) =>
                (pc' = st.nxt /\ IsSome(StoredNext(st)) /\ out' = out)
        /\ (pc = st.test /\ ~Present) => pc' = st.ask
        /\ (pc \in {st.test, st.ask} /\ pc' = st.nxt) =>
                Returned(st, Val(StoredNext(st)))]_vars

\* C17, amended: the environment value is used without prompting when the
\* file .env exists and the value is not empty: it is returned as it is, or
\* converted by int() for the integer setting, and when int() rejects it
\* ValueError ends the run before the session is opened.  In every other
\* case the loader prompts, and an empty or (for the integer setting)
\* non-integer line only asks again.  The value returned is never empty and
\* is an integer where one is required.
C17_LoaderContract ==
    /\ [][\A st \in Settings :
            /\ (pc = st.test /\ Present /\ Val(dotenv)
                    /\ (st.is_int => IntParses(Val(Val(env_val))))) =>
                    /\ pc' = st.nxt
                    /\ out' = out
                    /\ StoredNext(st) =
                          Some(IF st.is_int THEN ParseInt(Val(Val(env_val)))
                               ELSE Val(Val(env_val)))
            /\ (pc = st.test /\ Present /\ Val(dotenv)
                    /\ st.is_int /\ ~IntParses(Val(Val(env_val)))) =>
                    /\ pc' = "aborted"
                    /\ fault' = Some("ValueError")
                    /\ session' = "none"
                    /\ UNCHANGED cfgVars
            /\ (pc = st.test /\ ~(Present /\ Val(dotenv))) =>
                    (pc' = st.ask /\ UNCHANGED cfgVars)
            /\ (pc = st.ask /\ pc' = st.ask) => UNCHANGED cfgVars
            /\ (pc \in {st.test, st.ask} /\ pc' = st.nxt) =>
                    Returned(st, Val(StoredNext(st)))]_vars
    /\ [](pc \notin {"env_api_id", "test_api_id", "ask_api_id", "aborted"} =>
            (IsSome(api_id) /\ Val(api_id) \in Int))
    /\ [](pc \notin {"env_api_id", "test_api_id", "ask_api_id", "env_api_hash",
                      "test_api_hash", "ask_api_hash", "aborted"} =>
            (IsSome(api_hash) /\ Val(api_hash) # <<>>))

C17_Witness ==
    /\ pc = "ask_api_hash"
    /\ Present
    /\ dotenv = Some(FALSE)
    /\ api_id = Some(12)
    /\ out = <<"Informe um numero inteiro valido">>

\* the dated messages of the source that are not older than the start date
OnOrAfterStart ==
    {m \in Elems(history) : IsSome(m.date) /\ DateOf(m) >= Val(start_date)}

\* C18: the early stop loses nothing.  The iterator is never asked for a
\* message beyond the first one older than the start date, and nothing
\* yielded from there on is kept; when the provider yields dated messages
\* newest first, the buffer the fetch returns holds every dated message of
\* the source that is not older than the start date, and the fetch stopped
\* exactly at the first older one.
C18_EarlyStopLosesNothing ==
    /\ pos <= Len(history)
    /\ IsSome(start_date) =>
        /\ pos <= BreakAt
        /\ pc = "fetch" =>
              Elems(messages) \subseteq {history[k] : k \in 1..(BreakAt - 1)}
        /\ (pc = "count" /\ ProviderDescending(history)) =>
              /\ Elems(messages) = OnOrAfterStart
              /\ Len(messages) = Cardinality(OnOrAfterStart)
              /\ pos = (IF BreakAt <= Len(history) THEN BreakAt ELSE Len(history))

C18_Witness ==
    /\ pc = "count"
    /\ IsSome(start_date)
    /\ ProviderDescending(history)
    /\ BreakAt <= Len(history)
    /\ Len(messages) >= 1

\* the copy-count prompt is left by a blank entry, with nothing to copy
LeftByBlank ==
    /\ pc' = "loop"
    /\ num_to_copy' = 0
    /\ messages' = <<>>
    /\ fault' = None

\* the copy-count prompt is left by Ctrl-C
LeftByInterrupt ==
    /\ pc' = "aborted"
    /\ out' = Cancelada
    /\ fault' = None

\* the copy-count prompt is left by the end of the input
LeftByEndOfInput ==
    /\ pc' = "aborted"
    /\ fault' = Some("EOFError")

\* C19 as stated: with nothing fetched, only a blank entry or a keyboard
\* interrupt leaves the copy-count prompt.
C19_OnlyBlankOrInterrupt ==
    [][(pc = "count" /\ total_mensagens = 0 /\ pc' # "count") =>
            (LeftByBlank \/ LeftByInterrupt)]_vars

\* C19, amended: when the fetch kept no message, the copy-count prompt
\* accepts no entry but a blank one: every number is rejected, being <= 0 or
\* above the total of 0, and so is every other text.  The prompt is left
\* only by a blank entry, by a keyboard interrupt, or by the end of the
\* input, whose EOFError goes out of main.  After a blank entry the clone
\* loop has nothing to take: its one step ends the run DONE, and nothing was
\* sent.
C19_ZeroMessages ==
    /\ [](pc = "count" /\ total_mensagens = 0 =>
            /\ messages = <<>>
            /\ \A e \in CountEntries :
                /\ CountDecision(e, 0).accept <=> (Strip(e) = <<>>)
                /\ IntParses(e) =>
                      CountDecision(e, 0).line =
                          (IF ParseInt(e) <= 0
                           THEN <<"Informe um numero maior que zero">>
                           ELSE <<"O canal tem apenas", 0>>))
    /\ [][(pc = "count" /\ total_mensagens = 0 /\ pc' # "count") =>
            (LeftByBlank \/ LeftByInterrupt \/ LeftByEndOfInput)]_vars
    /\ [][(pc = "count" /\ total_mensagens = 0 /\ pc' = "count") =>
            out' \in {<<"Entrada invalida.">>, <<"Informe um numero maior que zero">>,
                      <<"O canal tem apenas", 0>>}]_vars
    /\ [][(pc \in Replicating /\ total_mensagens = 0) =>
            (pc = "loop" /\ pc' = "done" /\ UNCHANGED copyVars)]_vars
    /\ [](pc \in Selected /\ total_mensagens = 0 =>
            (calls = <<>> /\ inflight = {} /\ dest = <<>> /\ slept = <<>>))

C19_Witness ==
    /\ pc = "done"
    /\ total_mensagens = 0
    /\ Len(history) = MaxHist
    /\ IsSome(start_date)
    /\ dest = <<>>

\* the run is done and every selected message was taken by the loop once:
\* one send call for each that has media or text, none for the others
ProcessedOnce ==
    /\ pc = "done"
    /\ idx = Len(messages)
    /\ \A i \in 1..Len(messages) :
          Cardinality({k \in 1..Len(calls) : calls[k].id = messages[i].id}) =
              (IF Transmits(messages[i]) THEN 1 ELSE 0)
    /\ Len(calls) = Cardinality({i \in 1..Len(messages) : Transmits(messages[i])})
    /\ inflight = {}

\* C20: the clone loop terminates, and so does the run.  In the loop the
\* selection does not change, the loop only moves forward, one message at a
\* time, and no step aborts the run: the loop can only end DONE, and a run
\* that is DONE has processed every selected message exactly once, whatever
\* mix of deliveries, skips, rate-limit signals and other errors occurred.
\* And every run ends, DONE or ABORTED, when every awaited call returns and
\* the operator eventually gives each prompt an accepted line.
C20_Terminates ==
    /\ [][(pc \in Replicating) =>
            (/\ messages' = messages
             /\ idx' \in {idx, idx + 1}
             /\ idx' <= Len(messages)
             /\ pc' \in (Replicating \cup {"done"})
             /\ fault' = fault)]_vars
    /\ [](pc = "done" => ProcessedOnce)
    /\ <>(pc \in Terminal)

C20_Witness ==
    /\ pc = "done"
    /\ Len(messages) = 2
    /\ Len(calls) = 2
    /\ Len(signals) = 1
    /\ dest = <<>>
    /\ out = <<"Clonagem concluida com sucesso!">>

====
